---------------------------- MODULE Spec2Model ----------------------------
(***************************************************************************)
(* A model of the PDF -> DOCX converters of this repository:               *)
(*   pdfDocx.py            (the basic variant),                            *)
(*   advanced_converter.py (the advanced variant),                         *)
(*   ultra_converter.py    (the ultra variant).                            *)
(*                                                                         *)
(* A Python string is a sequence of one-character strings.  The four       *)
(* non-ASCII bullet glyphs are written by their code points: "U+2022"      *)
(* (bullet), "U+25E6" (white bullet), "U+25AA" and "U+25AB" (small         *)
(* squares).  A float that the code computes as sum/len is kept as the     *)
(* exact fraction [num, den].  The document sink (python-docx Document) is *)
(* the sequence of the append operations it has received.                  *)
(***************************************************************************)
EXTENDS Integers, Sequences, FiniteSets, TLC

VARIABLES
    pc,          \* position of the running script
    variant,     \* which script runs: "basic", "advanced" or "ultra"
    pdf,         \* the source document: a sequence of pages
    page_num,    \* enumerate(pdf.pages, 1): number of the page in progress
    doc,         \* the document sink: sequence of appended nodes
    origin,      \* history: for each node of doc, the page/part/line it came from
    opened,      \* pdfplumber.open() has returned a handle
    closed,      \* pdf.close() has been called
    save_calls,  \* number of calls of doc.save()
    fault,       \* history: the call that raised ("none" if none did)
    in_text,     \* input of the text functions: one line of text
    in_size,     \* input: average font size of the line, [num, den]
    in_indent,   \* input: leftmost x0 of the line
    blk,         \* the TextBlock built from the inputs
    clean,       \* the bullet strippers' outputs on in_text
    clean2,      \* the bullet strippers' outputs on their own outputs
    grid,        \* input of the table emitter: one table grid
    page_chars,  \* input of the line grouper: the characters of one page
    grouped,     \* the line grouper's sorted_lines for page_chars
    blocks       \* analyze_text_blocks(page_chars)

vars == <<pc, variant, pdf, page_num, doc, origin, opened, closed, save_calls,
          fault, in_text, in_size, in_indent, blk, clean, clean2,
          grid, page_chars, grouped, blocks>>

-----------------------------------------------------------------------------
(* Characters and the str / re primitives the code uses.                    *)

UpperLetters == <<"A", "B", "C", "D", "E", "F", "G", "H", "I", "J", "K", "L", "M", "N",
        "O", "P", "Q", "R", "S", "T", "U", "V", "W", "X", "Y", "Z">>
LowerLetters == <<"a", "b", "c", "d", "e", "f", "g", "h", "i", "j", "k", "l", "m", "n",
        "o", "p", "q", "r", "s", "t", "u", "v", "w", "x", "y", "z">>
Upper == {UpperLetters[i] : i \in 1..26}
Lower == {LowerLetters[i] : i \in 1..26}
Letter == Upper \cup Lower
Digit == {"0", "1", "2", "3", "4", "5", "6", "7", "8", "9"}
\* \s of the re module (the members that occur in the inputs)
WS == {" ", "\t", "\n"}
\* \w of the re module
WordChar == Letter \cup Digit \cup {"_"}

\* the character class [\s U+2022 U+25E6 \- * U+25AA U+25AB]
BulletClass == WS \cup {"U+2022", "U+25E6", "-", "*", "U+25AA", "U+25AB"}
\* bullet_indicators of detect_bullet_point
bullet_indicators == {"U+2022", "U+25E6", "-", "*", "U+25AA", "U+25AB"}
\* the character class of smart_text_parsing's substitution: the bullet class, \d and .
SmartClass == BulletClass \cup Digit \cup {"."}

Drop(s, n) == SubSeq(s, n + 1, Len(s))

\* number of leading characters of s that are in S
LeadIn(s, S) ==
    IF \A i \in 1..Len(s) : s[i] \in S THEN Len(s)
    ELSE (CHOOSE i \in 1..Len(s) : s[i] \notin S /\ \A j \in 1..(i - 1) : s[j] \in S) - 1

\* number of trailing characters of s that are in S
TrailIn(s, S) ==
    IF \A i \in 1..Len(s) : s[i] \in S THEN Len(s)
    ELSE Len(s) - (CHOOSE i \in 1..Len(s) : s[i] \notin S /\ \A j \in (i + 1)..Len(s) : s[j] \in S)

\* str.strip()
strip(s) ==
    IF \A i \in 1..Len(s) : s[i] \in WS THEN <<>>
    ELSE SubSeq(s, LeadIn(s, WS) + 1, Len(s) - TrailIn(s, WS))

\* str.isupper(): at least one cased character and no lowercase one
isupper(s) ==
    /\ \E i \in 1..Len(s) : s[i] \in Upper
    /\ \A i \in 1..Len(s) : s[i] \notin Lower

LowerOf(c) ==
    IF c \in Upper THEN LowerLetters[CHOOSE i \in 1..26 : UpperLetters[i] = c] ELSE c

\* str.lower()
lower(s) == [i \in 1..Len(s) |-> LowerOf(s[i])]

\* sub in s
Contains(s, sub) ==
    \E i \in 0..(Len(s) - Len(sub)) : SubSeq(s, i + 1, i + Len(sub)) = sub

\* str.startswith
startswith(s, pre) == Len(s) >= Len(pre) /\ SubSeq(s, 1, Len(pre)) = pre

AllIn(s, a, b, S) == \A i \in a..b : i \in 1..Len(s) /\ s[i] \in S

\* \b between s[i] and s[i+1] (i = 0: before the text, i = Len(s): after it)
Boundary(s, i) ==
    LET before == i >= 1 /\ i <= Len(s) /\ s[i] \in WordChar
        after == i + 1 >= 1 /\ i + 1 <= Len(s) /\ s[i + 1] \in WordChar
    IN before # after

\* re.match(r'^[\s<glyphs>]', s)
MatchBulletClass(s) == Len(s) >= 1 /\ s[1] \in BulletClass

\* re.match(r'^\s*\d+\.', s)
MatchNumbered(s) ==
    LET t == Drop(s, LeadIn(s, WS))
        n == LeadIn(t, Digit)
    IN n >= 1 /\ Len(t) > n /\ t[n + 1] = "."

\* re.match(r'^\s*[a-zA-Z]\.', s)
MatchLettered(s) ==
    LET t == Drop(s, LeadIn(s, WS))
    IN Len(t) >= 2 /\ t[1] \in Letter /\ t[2] = "."

\* re.sub(r'^[\s<glyphs>]+', '', s)
SubBulletClass(s) == Drop(s, LeadIn(s, BulletClass))

\* re.sub(r'^\d+\.\s*', '', s)
SubNumbered(s) ==
    LET n == LeadIn(s, Digit)
    IN IF n >= 1 /\ Len(s) > n /\ s[n + 1] = "."
       THEN Drop(Drop(s, n + 1), LeadIn(Drop(s, n + 1), WS))
       ELSE s

\* re.sub(r'^[a-zA-Z]\.\s*', '', s)
SubLettered(s) ==
    IF Len(s) >= 2 /\ s[1] \in Letter /\ s[2] = "."
    THEN Drop(Drop(s, 2), LeadIn(Drop(s, 2), WS))
    ELSE s

\* re.sub(r'^[\s<glyphs>\d.]+', '', s)
SubSmartClass(s) == Drop(s, LeadIn(s, SmartClass))

PhoneSep == {"-", "."}

\* re.search(r'\b\d{3}[-.]?\d{3}[-.]?\d{4}\b', s)
SearchPhone(s) ==
    \E i \in 1..Len(s) : \E a \in {0, 1} : \E b \in {0, 1} :
        /\ Boundary(s, i - 1)
        /\ AllIn(s, i, i + 2, Digit)
        /\ (a = 1 => AllIn(s, i + 3, i + 3, PhoneSep))
        /\ AllIn(s, i + 3 + a, i + 5 + a, Digit)
        /\ (b = 1 => AllIn(s, i + 6 + a, i + 6 + a, PhoneSep))
        /\ AllIn(s, i + 6 + a + b, i + 9 + a + b, Digit)
        /\ Boundary(s, i + 9 + a + b)

EmailLocal == Letter \cup Digit \cup {".", "_", "%", "+", "-"}
EmailDomain == Letter \cup Digit \cup {".", "-"}
EmailTld == Letter \cup {"|"}

\* re.search(r'\b[A-Za-z0-9._%+-]+@[A-Za-z0-9.-]+\.[A-Z|a-z]{2,}\b', s)
SearchEmail(s) ==
    \E at \in 2..Len(s) :
        /\ s[at] = "@"
        /\ \E i \in 1..(at - 1) :
               /\ Boundary(s, i - 1)
               /\ AllIn(s, i, at - 1, EmailLocal)
        /\ \E dot \in (at + 2)..Len(s) :
               /\ s[dot] = "."
               /\ AllIn(s, at + 1, dot - 1, EmailDomain)
               /\ \E e \in (dot + 2)..Len(s) :
                      /\ AllIn(s, dot + 1, e, EmailTld)
                      /\ Boundary(s, e)

\* text.split('\n')
RECURSIVE split(_)
split(s) ==
    IF \A i \in 1..Len(s) : s[i] # "\n" THEN <<s>>
    ELSE LET k == CHOOSE i \in 1..Len(s) : s[i] = "\n" /\ \A j \in 1..(i - 1) : s[j] # "\n"
         IN <<SubSeq(s, 1, k - 1)>> \o split(Drop(s, k))

\* ' '.join(parts)
RECURSIVE join(_)
join(parts) ==
    IF Len(parts) = 0 THEN <<>>
    ELSE IF Len(parts) = 1 THEN parts[1]
    ELSE parts[1] \o <<" ">> \o join(Tail(parts))

\* a float kept exactly: num / den
Frac(num, den) == [num |-> num, den |-> den]
\* f > k
Gt(f, k) == f.num > k * f.den
\* int(f), f >= 0
int(f) == f.num \div f.den

-----------------------------------------------------------------------------
(* The document sink: the nodes that python-docx appends.                  *)

\* doc.add_paragraph(text, style): fmt and size are what the caller then sets on it
Paragraph(t, style, fmt, size) ==
    [op |-> "add_paragraph", text |-> t, level |-> 0, style |-> style, fmt |-> fmt,
     size |-> size, rows |-> 0, cols |-> 0, cells |-> <<>>]

\* doc.add_heading(text, level)
Heading(t, level, fmt) ==
    [op |-> "add_heading", text |-> t, level |-> level, style |-> "", fmt |-> fmt,
     size |-> 0, rows |-> 0, cols |-> 0, cells |-> <<>>]

\* doc.add_table(rows, cols) with the cells as filled afterwards
Table(rows, cols, cells, style) ==
    [op |-> "add_table", text |-> <<>>, level |-> 0, style |-> style, fmt |-> "",
     size |-> 0, rows |-> rows, cols |-> cols, cells |-> cells]

\* doc.add_page_break()
PageBreak ==
    [op |-> "add_page_break", text |-> <<>>, level |-> 0, style |-> "", fmt |-> "",
     size |-> 0, rows |-> 0, cols |-> 0, cells |-> <<>>]

-----------------------------------------------------------------------------
(* ultra_converter.py: the block classifier and the block emitter.         *)

section_keywords ==
    <<<<"e", "x", "p", "e", "r", "i", "e", "n", "c", "e">>, <<"e", "d", "u", "c", "a",
            "t", "i", "o", "n">>, <<"s", "k", "i", "l", "l", "s">>, <<"s", "u", "m", "m",
            "a", "r", "y">>, <<"o", "b", "j", "e", "c", "t", "i", "v", "e">>,
      <<"p", "r", "o", "j", "e", "c", "t", "s">>, <<"c", "e", "r", "t", "i", "f", "i",
              "c", "a", "t", "i", "o", "n", "s">>>>

HasSectionKeyword(t) ==
    \E k \in 1..Len(section_keywords) : Contains(lower(t), section_keywords[k])

\* classify_text_type with the contact rules tried before the bullet rule
classify_contact_first(t, font_size, indent_level) ==
    IF Gt(font_size, 16) THEN "heading1"
    ELSE IF Gt(font_size, 14) THEN "heading2"
    ELSE IF isupper(t) /\ Len(t) < 50 THEN "heading2"
    ELSE IF SearchPhone(t) THEN "contact"
    ELSE IF SearchEmail(t) THEN "contact"
    ELSE IF MatchBulletClass(t) \/ MatchNumbered(t) THEN "bullet"
    ELSE IF HasSectionKeyword(t) /\ Len(t) < 30 THEN "section_header"
    ELSE IF indent_level > 50 THEN "indented"
    ELSE "paragraph"

classify_text_type(t, font_size, indent_level) ==
    IF Gt(font_size, 16) THEN "heading1"
    ELSE IF Gt(font_size, 14) THEN "heading2"
    ELSE IF isupper(t) /\ Len(t) < 50 THEN "heading2"
    ELSE IF MatchBulletClass(t) \/ MatchNumbered(t) THEN "bullet"
    ELSE IF SearchPhone(t) THEN "contact"
    ELSE IF SearchEmail(t) THEN "contact"
    ELSE IF HasSectionKeyword(t) /\ Len(t) < 30 THEN "section_header"
    ELSE IF indent_level > 50 THEN "indented"
    ELSE "paragraph"

\* a TextBlock; the 'empty' block of the code has only type and text
TextBlock(type, t, font_size, font, indent) ==
    [type |-> type, text |-> t, font_size |-> font_size, font |-> font, indent |-> indent]

EmptyBlock == TextBlock("empty", <<>>, Frac(0, 1), "", 0)

\* the clean_text of add_formatted_text_block's bullet branch
ultra_clean_text(t) == strip(SubNumbered(strip(SubBulletClass(t))))

\* add_formatted_text_block without the "if clean_text" guard of the bullet branch
add_block_unguarded(d, block) ==
    IF block.type = "empty" THEN d \o <<Paragraph(<<>>, "", "", 0)>>
    ELSE IF block.type = "heading1" THEN d \o <<Heading(block.text, 1, "left")>>
    ELSE IF block.type \in {"heading2", "section_header"} THEN d \o <<Heading(block.text,
            2, "left")>>
    ELSE IF block.type = "bullet"
    THEN d \o <<Paragraph(ultra_clean_text(block.text), "List Bullet", "", 0)>>
    ELSE d \o <<Paragraph(block.text, "", "", 0)>>

add_formatted_text_block(d, block) ==
    IF block.type = "empty" THEN d \o <<Paragraph(<<>>, "", "", 0)>>
    ELSE IF block.type = "heading1" THEN d \o <<Heading(block.text, 1, "left")>>
    ELSE IF block.type = "heading2" THEN d \o <<Heading(block.text, 2, "left")>>
    ELSE IF block.type = "section_header" THEN d \o <<Heading(block.text, 2,
            "left underline")>>
    ELSE IF block.type = "bullet" THEN
        IF ultra_clean_text(block.text) # <<>>
        THEN d \o <<Paragraph(ultra_clean_text(block.text), "List Bullet", "", 0)>>
        ELSE d
    ELSE IF block.type = "contact" THEN d \o <<Paragraph(block.text, "", "center italic",
            11)>>
    ELSE IF block.type = "indented" THEN d \o <<Paragraph(block.text, "", "left_indent",
            10)>>
    ELSE d \o <<Paragraph(block.text, "", "",
                          IF Gt(block.font_size, 12) THEN int(block.font_size) ELSE 0)>>

\* the clean_text of smart_text_parsing's bullet branch
smart_clean_text(line) == strip(SubSmartClass(line))

\* smart_line with the all-caps line made a top-level heading
smart_line_level1(d, raw) ==
    LET line == strip(raw)
    IN IF line = <<>> THEN d \o <<Paragraph(<<>>, "", "", 0)>>
       ELSE IF isupper(line) /\ Len(line) < 50 THEN d \o <<Heading(line, 1, "")>>
       ELSE d \o <<Paragraph(line, "", "", 0)>>

\* one iteration of smart_text_parsing's loop
smart_line(d, raw) ==
    LET line == strip(raw)
    IN IF line = <<>> THEN d \o <<Paragraph(<<>>, "", "", 0)>>
       ELSE IF isupper(line) /\ Len(line) < 50 THEN d \o <<Heading(line, 2, "")>>
       ELSE IF MatchBulletClass(line) \/ MatchNumbered(line) THEN
           IF smart_clean_text(line) # <<>>
           THEN d \o <<Paragraph(smart_clean_text(line), "List Bullet", "", 0)>>
           ELSE d
       ELSE d \o <<Paragraph(line, "", "", 0)>>

RECURSIVE smart_lines(_, _)
smart_lines(d, lines) ==
    IF lines = <<>> THEN d ELSE smart_lines(smart_line(d, Head(lines)), Tail(lines))

smart_text_parsing(d, t) == smart_lines(d, split(t))

-----------------------------------------------------------------------------
(* advanced_converter.py: bullets and paragraphs.                          *)

detect_bullet_point(t) ==
    \/ \E g \in bullet_indicators : startswith(t, <<g>>)
    \/ MatchNumbered(t)
    \/ MatchLettered(t)

\* the text that add_bullet_point is left with
advanced_clean_text(t) == strip(SubLettered(strip(SubNumbered(strip(SubBulletClass(t))))))

add_bullet_point(d, t) ==
    IF advanced_clean_text(t) # <<>>
    THEN d \o <<Paragraph(advanced_clean_text(t), "List Bullet", "", 0)>>
    ELSE d

advanced_keywords == <<<<"s", "u", "m", "m", "a", "r", "y">>, <<"o", "b", "j", "e", "c",
        "t", "i", "v", "e">>, <<"e", "x", "p", "e", "r", "i", "e", "n", "c", "e">>, <<"e",
        "d", "u", "c", "a", "t", "i", "o", "n">>, <<"s", "k", "i", "l", "l", "s">>>>

add_formatted_paragraph(d, raw) ==
    LET t == strip(raw)
    IN IF t = <<>> THEN d
       ELSE IF detect_bullet_point(t) THEN add_bullet_point(d, t)
       ELSE IF isupper(t) /\ Len(t) < 50 THEN d \o <<Heading(t, 2, "")>>
       ELSE d \o <<Paragraph(t, "", IF \E k \in 1..Len(advanced_keywords) :
                                          Contains(lower(t), advanced_keywords[k])
                                    THEN "bold" ELSE "", 0)>>

-----------------------------------------------------------------------------
(* Inputs of the text functions.                                           *)

Prefixes ==
    {<<>>, <<"U+2022", " ">>, <<"-", " ">>, <<"*">>, <<"U+25AA", " ">>, <<"1", ".", " ">>,
            <<"1", "2", ".">>, <<"a", ".", " ">>, <<"A", ".", " ">>,
     <<"1", ".", " ", "-", " ">>, <<"1", ".", " ", "2", ".", " ">>, <<"U+2022", " ", "1",
             ".", " ">>, <<"a", ".", " ", "1", ".", " ">>}

Bodies ==
    {<<>>, <<"L", "e", "d", " ", "a", " ", "t", "e", "a", "m", " ", "o", "f", " ", "5",
            " ", "e", "n", "g", "i", "n", "e", "e", "r", "s">>, <<"S", "K", "I", "L", "L",
            "S">>, <<"S", "k", "i", "l", "l", "s">>, <<"P", "R", "O", "F", "E", "S", "S",
            "I", "O", "N", "A", "L", " ", "S", "U", "M", "M", "A", "R", "Y">>,
     <<"W", "O", "R", "K", " ", "H", "I", "S", "T", "O", "R", "Y">>, <<"c", "a", "l", "l",
             " ", "5", "5", "5", "-", "1", "2", "3", "-", "4", "5", "6", "7">>, <<"5",
             "5", "5", ".", "1", "2", "3", ".", "4", "5", "6", "7">>, <<"j", "o", "h",
             "n", ".", "d", "o", "e", "@", "e", "x", "a", "m", "p", "l", "e", ".", "c",
             "o", "m">>,
     <<"E", "D", "U", "C", "A", "T", "I", "O", "N", " ", "A", "N", "D", " ", "C", "E",
             "R", "T", "I", "F", "I", "C", "A", "T", "I", "O", "N", "S", " ", "E", "A",
             "R", "N", "E", "D">>,
     <<"S", "U", "M", "M", "A", "R", "Y", " ", "O", "F", " ", "Q", "U", "A", "L", "I",
             "F", "I", "C", "A", "T", "I", "O", "N", "S", " ", "A", "N", "D", " ", "P",
             "R", "O", "F", "E", "S", "S", "I", "O", "N", "A", "L", " ", "E", "X", "P",
             "E", "R", "I", "E", "N", "C", "E">>,
     <<"s", "u", "m", "m", "a", "r", "y", " ", "o", "f", " ", "p", "r", "o", "f", "e",
             "s", "s", "i", "o", "n", "a", "l", " ", "e", "x", "p", "e", "r", "i", "e",
             "n", "c", "e">>}

TextSamples == {strip(p \o b) : p \in Prefixes, b \in Bodies}

\* average font sizes: 10, 12.5, 14, 15, 16, 18
SizeSamples == {Frac(10, 1), Frac(25, 2), Frac(14, 1), Frac(15, 1), Frac(16, 1), Frac(18,
        1)}

IndentSamples == {0, 50, 72}

Kinds ==
    {"empty", "heading1", "heading2", "section_header", "bullet", "contact",
     "indented", "paragraph"}

NoBlock == TextBlock("none", <<>>, Frac(0, 1), "", 0)
NoClean == [advanced |-> <<>>, ultra |-> <<>>, smart |-> <<>>]

\* the three bullet-marker strippers, applied to t
Strippers(t) ==
    [advanced |-> advanced_clean_text(t), ultra |-> ultra_clean_text(t),
     smart |-> smart_clean_text(t)]

\* the variables of the conversion run, idle
RunIdle ==
    /\ pdf = <<>>
    /\ page_num = 0
    /\ origin = <<>>
    /\ opened = FALSE
    /\ closed = FALSE
    /\ save_calls = 0
    /\ fault = "none"

\* the variables of the text functions, idle
TextIdle ==
    /\ in_text = <<>>
    /\ in_size = Frac(0, 1)
    /\ in_indent = 0
    /\ blk = NoBlock
    /\ clean = NoClean
    /\ clean2 = NoClean

\* the variable of the table emitter, idle
TableIdle == grid = <<>>

\* the variables of the line grouper, idle
GroupIdle ==
    /\ page_chars = <<>>
    /\ grouped = <<>>
    /\ blocks = <<>>

groupVars == <<page_chars, grouped, blocks>>
runVars == <<pdf, page_num, origin, opened, closed, save_calls, fault>>
textVars == <<in_text, in_size, in_indent, blk, clean, clean2>>

-----------------------------------------------------------------------------
(* The text functions applied to one line: SpecText.                       *)

InitText ==
    /\ pc = "input"
    /\ doc = <<>>
    /\ in_text \in TextSamples
    /\ in_size \in SizeSamples
    /\ in_indent \in IndentSamples
    /\ blk = NoBlock
    /\ clean = NoClean
    /\ clean2 = NoClean
    /\ variant = "ultra"
    /\ RunIdle
    /\ TableIdle
    /\ GroupIdle

\* analyze_text_blocks, the body of its second loop for one line
LineBlock(t, font_size, font, indent) ==
    IF t = <<>> THEN EmptyBlock
    ELSE TextBlock(classify_text_type(t, font_size, indent), t, font_size, font, indent)

\* the line is turned into its TextBlock
Classify ==
    /\ pc = "input"
    /\ blk' = LineBlock(in_text, in_size, "default", in_indent)
    /\ pc' = "classified"
    /\ UNCHANGED <<doc, in_text, in_size, in_indent, clean, clean2>>
    /\ UNCHANGED <<variant, runVars, grid, page_chars, grouped, blocks>>

\* a TextBlock of any kind over the text
AnyBlock ==
    /\ pc = "input"
    /\ \E k \in Kinds :
          blk' = IF k = "empty" THEN EmptyBlock
                 ELSE TextBlock(k, in_text, in_size, "default", in_indent)
    /\ in_text # <<>>
    /\ pc' = "built"
    /\ UNCHANGED <<doc, in_text, in_size, in_indent, clean, clean2>>
    /\ UNCHANGED <<variant, runVars, grid, page_chars, grouped, blocks>>

\* add_formatted_text_block(doc, block)
AddBlock ==
    /\ pc \in {"classified", "built"}
    /\ doc' = add_formatted_text_block(doc, blk)
    /\ pc' = "emitted"
    /\ UNCHANGED <<textVars, variant, runVars, grid, page_chars, grouped, blocks>>

\* the three strippers on the text
Strip ==
    /\ pc = "input"
    /\ clean' = Strippers(in_text)
    /\ pc' = "stripped"
    /\ UNCHANGED <<doc, in_text, in_size, in_indent, blk, clean2>>
    /\ UNCHANGED <<variant, runVars, grid, page_chars, grouped, blocks>>

\* the three strippers on their own outputs
Restrip ==
    /\ pc = "stripped"
    /\ clean2' = [advanced |-> advanced_clean_text(clean.advanced),
                  ultra |-> ultra_clean_text(clean.ultra),
                  smart |-> smart_clean_text(clean.smart)]
    /\ pc' = "restripped"
    /\ UNCHANGED <<doc, in_text, in_size, in_indent, blk, clean>>
    /\ UNCHANGED <<variant, runVars, grid, page_chars, grouped, blocks>>

NextText == Classify \/ AnyBlock \/ AddBlock \/ Strip \/ Restrip

SpecText == InitText /\ [][NextText]_vars

-----------------------------------------------------------------------------
(* The table emitter (the same loop in the advanced and ultra variants).   *)

\* a cell of a table grid: None, or a string
None == <<>>
Str(t) == <<t>>
\* if cell_text:
Truthy(cell) == cell # None /\ cell[1] # <<>>

\* the table style each variant sets
TableStyle(v) == IF v = "ultra" THEN "Light Grid Accent 1" ELSE "Table Grid"

\* (i, j) comes before (a, b) in the order the fill loops visit the cells
Before(i, j, a, b) == i < a \/ (i = a /\ j < b)

\* word_table.rows[i].cells[j] raises IndexError: a cell with text at a column the
\* table does not have
Raises(table_data, i, j) ==
    /\ j > Len(table_data[1])
    /\ j <= Len(table_data[i])
    /\ Truthy(table_data[i][j])

RowRaises(table_data, i) ==
    \E j \in 1..Len(table_data[i]) : Raises(table_data, i, j)

\* the fill loops raise
FillRaises(table_data) == \E i \in 1..Len(table_data) : RowRaises(table_data, i)

\* the first cell on which the fill loops raise
FirstRaise(table_data) ==
    LET i0 == CHOOSE i \in 1..Len(table_data) :
                  /\ RowRaises(table_data, i)
                  /\ \A k \in 1..(i - 1) : ~RowRaises(table_data, k)
        j0 == CHOOSE j \in 1..Len(table_data[i0]) :
                  /\ Raises(table_data, i0, j)
                  /\ \A k \in 1..(j - 1) : ~Raises(table_data, i0, k)
    IN <<i0, j0>>

\* the text of the Word table's cell (i, j) when the fill loops have ended
FilledCell(table_data, i, j) ==
    IF /\ j <= Len(table_data[i])
       /\ Truthy(table_data[i][j])
       /\ (FillRaises(table_data) =>
              Before(i, j, FirstRaise(table_data)[1], FirstRaise(table_data)[2]))
    THEN strip(table_data[i][j][1])
    ELSE <<>>

\* one iteration of "for table_data in tables": the new document, and whether the
\* iteration ended without an exception
emit_table(d, table_data, style) ==
    IF table_data = <<>> THEN [doc |-> d, ok |-> TRUE]
    ELSE LET R == Len(table_data)
             C == Len(table_data[1])
             word_table ==
                 Table(R, C, [i \in 1..R |-> [j \in 1..C |-> FilledCell(table_data, i, j)]],
                       style)
         IN IF FillRaises(table_data)
            THEN [doc |-> d \o <<word_table>>, ok |-> FALSE]
            ELSE [doc |-> d \o <<word_table, Paragraph(<<>>, "", "", 0)>>, ok |-> TRUE]

\* "for table_data in tables", up to the first exception
RECURSIVE emit_tables(_, _, _)
emit_tables(d, tables, style) ==
    IF tables = <<>> THEN [doc |-> d, ok |-> TRUE]
    ELSE LET r == emit_table(d, Head(tables), style)
         IN IF r.ok THEN emit_tables(r.doc, Tail(tables), style) ELSE r

-----------------------------------------------------------------------------
(* The table emitter applied to one grid: SpecTable.                       *)

MaxRows == 2
MaxCols == 2

CellSamples == {None, Str(<<>>), Str(<<" ", "a", " ">>), Str(<<"b">>)}

\* rows of one cell or more
RowSamples == UNION {[1..n -> CellSamples] : n \in 1..MaxCols}

GridSamples == UNION {[1..n -> RowSamples] : n \in 0..MaxRows}

InitTable ==
    /\ pc = "input"
    /\ doc = <<>>
    /\ variant \in {"advanced", "ultra"}
    /\ grid \in GridSamples
    /\ RunIdle
    /\ TextIdle
    /\ GroupIdle

\* the body of "for table_data in tables" on the grid
EmitTable ==
    /\ pc = "input"
    /\ LET r == emit_table(doc, grid, TableStyle(variant))
       IN /\ doc' = r.doc
          /\ pc' = IF r.ok THEN "emitted" ELSE "error"
          /\ fault' = IF r.ok THEN "none" ELSE "fill"
    /\ UNCHANGED <<variant, pdf, page_num, origin, opened, closed, save_calls>>
    /\ UNCHANGED <<textVars, grid, groupVars>>

NextTable == EmitTable

SpecTable == InitTable /\ [][NextTable]_vars

-----------------------------------------------------------------------------
(* The line grouper.                                                        *)

\* a character of page.chars; y0 in thousandths of a unit, size NoSize when the
\* record has no 'size'
Char(t, x0, y0, size, fontname) ==
    [text |-> t, x0 |-> x0, y0 |-> y0, size |-> size, fontname |-> fontname]

NoSize == 0

\* char.get('size', 12)
SizeOf(c) == IF c.size = NoSize THEN 12 ELSE c.size

\* round(y0, 2) and round(y0, 1) on thousandths: the nearest multiple of q, a tie
\* to the even one
Round(y, q) ==
    LET r == y % q
        low == y - r
    IN IF 2 * r < q THEN low
       ELSE IF 2 * r > q THEN low + q
       ELSE IF (low \div q) % 2 = 0 THEN low ELSE low + q

\* the quantum of each variant: round(y0, 2) in ultra, round(y0, 1) in advanced
Quantum(v) == IF v = "ultra" THEN 10 ELSE 100

\* the characters of cs whose line is y, in the order of cs
LineChars(cs, y, q) == SelectSeq(cs, LAMBDA c : Round(c.y0, q) = y)

\* sorted(cs, key=lambda c: c['x0']): a stable sort
RECURSIVE SortByX0(_)
SortByX0(cs) ==
    IF cs = <<>> THEN <<>>
    ELSE LET k == CHOOSE i \in 1..Len(cs) :
                      /\ \A j \in 1..Len(cs) : cs[i].x0 <= cs[j].x0
                      /\ \A j \in 1..(i - 1) : cs[j].x0 > cs[i].x0
         IN <<cs[k]>> \o SortByX0(SubSeq(cs, 1, k - 1) \o SubSeq(cs, k + 1, Len(cs)))

\* sorted(keys) without reverse=True
RECURSIVE SortAscending(_)
SortAscending(S) ==
    IF S = {} THEN <<>>
    ELSE LET m == CHOOSE x \in S : \A y \in S : x <= y
         IN <<m>> \o SortAscending(S \ {m})

\* sorted(keys, reverse=True)
RECURSIVE SortDescending(_)
SortDescending(S) ==
    IF S = {} THEN <<>>
    ELSE LET m == CHOOSE x \in S : \A y \in S : y <= x
         IN <<m>> \o SortDescending(S \ {m})

\* sorted_lines, with each line's characters sorted by x0
sorted_lines(cs, q) ==
    LET keys == SortDescending({Round(cs[i].y0, q) : i \in 1..Len(cs)})
    IN [k \in 1..Len(keys) |->
           [y |-> keys[k], chars |-> SortByX0(LineChars(cs, keys[k], q))]]

\* ''.join(char['text'] for char in cs)
RECURSIVE JoinText(_)
JoinText(cs) == IF cs = <<>> THEN <<>> ELSE Head(cs).text \o JoinText(Tail(cs))

RECURSIVE SumSizes(_)
SumSizes(cs) == IF cs = <<>> THEN 0 ELSE SizeOf(Head(cs)) + SumSizes(Tail(cs))

\* max(set(fonts), key=fonts.count); no node reads it
MostCommonFont(cs) ==
    LET count(f) == Cardinality({i \in 1..Len(cs) : cs[i].fontname = f})
    IN CHOOSE f \in {cs[i].fontname : i \in 1..Len(cs)} :
           \A g \in {cs[i].fontname : i \in 1..Len(cs)} : count(g) <= count(f)

MinX0(cs) == CHOOSE x \in {cs[i].x0 : i \in 1..Len(cs)} : \A i \in 1..Len(cs) : x <= cs[i].x0

analyze_text_blocks(cs) ==
    LET sl == sorted_lines(cs, 10)
    IN [k \in 1..Len(sl) |->
           LineBlock(strip(JoinText(sl[k].chars)),
                     Frac(SumSizes(sl[k].chars), Len(sl[k].chars)),
                     MostCommonFont(sl[k].chars), MinX0(sl[k].chars))]

-----------------------------------------------------------------------------
(* The line grouper applied to the characters of one page: SpecGroup.      *)

MaxChars == 3

CharSamples ==
    {Char(<<t>>, x, y0, IF t = "A" THEN 18 ELSE NoSize, "default") :
        t \in {"A", "b", " "}, x \in {0, 60}, y0 \in {7004, 7006, 7060}}

InitGroup ==
    /\ pc = "input"
    /\ doc = <<>>
    /\ variant \in {"advanced", "ultra"}
    /\ page_chars \in UNION {[1..n -> CharSamples] : n \in 1..MaxChars}
    /\ grouped = <<>>
    /\ blocks = <<>>
    /\ RunIdle
    /\ TextIdle
    /\ TableIdle

\* the grouping loops of the variant; in ultra, analyze_text_blocks
Group ==
    /\ pc = "input"
    /\ grouped' = sorted_lines(page_chars, Quantum(variant))
    /\ blocks' = IF variant = "ultra" THEN analyze_text_blocks(page_chars) ELSE <<>>
    /\ pc' = "grouped"
    /\ UNCHANGED <<doc, variant, runVars, textVars, grid, page_chars>>

NextGroup == Group

SpecGroup == InitGroup /\ [][NextGroup]_vars

-----------------------------------------------------------------------------
(* The page loops of the three scripts.                                    *)

\* history: where a node of doc comes from. part is "break", "table" or "text";
\* line is the index of the line the node was emitted for and y its quantized y0
\* (0 for a line of extract_text)
Tag(page, part, line, y) == [page |-> page, part |-> part, line |-> line, y |-> y]

\* the sink and its history after the code has taken st.doc to d2
Tagged(st, d2, tag) ==
    [doc |-> d2, origin |-> st.origin \o [i \in 1..(Len(d2) - Len(st.doc)) |-> tag]]

\* a page break before the first page too
BreakBeforeEveryPage(n) == n >= 1

\* if page_num > 1: doc.add_page_break()
NeedsPageBreak(n) == n > 1

\* ultra: for block in text_blocks: add_formatted_text_block(doc, block)
RECURSIVE ultra_blocks(_, _, _, _, _)
ultra_blocks(st, bs, sl, k, page) ==
    IF k > Len(bs) THEN st
    ELSE ultra_blocks(Tagged(st, add_formatted_text_block(st.doc, bs[k]),
                             Tag(page, "text", k, sl[k].y)),
                      bs, sl, k + 1, page)

\* ultra: the fallback, smart_text_parsing's loop
RECURSIVE smart_tagged(_, _, _, _)
smart_tagged(st, ls, k, page) ==
    IF k > Len(ls) THEN st
    ELSE smart_tagged(Tagged(st, smart_line(st.doc, ls[k]), Tag(page, "text", k, 0)),
                      ls, k + 1, page)

\* advanced: is_likely_header
is_likely_header(line_text, avg_font_size) ==
    Gt(avg_font_size, 14) \/ isupper(line_text) \/ Len(line_text) < 50

\* advanced: the node added for a header line
advanced_header(d, line_text, avg_font_size) ==
    IF isupper(line_text) /\ Len(line_text) < 30 THEN d \o <<Heading(line_text, 2, "")>>
    ELSE d \o <<Paragraph(line_text, "",
                          IF Gt(avg_font_size, 14) THEN "bold" ELSE "",
                          IF Gt(avg_font_size, 14) THEN int(avg_font_size) ELSE 0)>>

\* advanced: "for y_pos, line_chars in sorted_lines" and the flush after it; cur is
\* current_paragraph_text and first the index of its first line
RECURSIVE advanced_lines(_, _, _, _, _, _)
advanced_lines(st, cur, first, sl, k, page) ==
    IF k > Len(sl) THEN
        IF cur # <<>>
        THEN Tagged(st, add_formatted_paragraph(st.doc, join(cur)),
                    Tag(page, "text", first, sl[first].y))
        ELSE st
    ELSE LET line_text == strip(JoinText(sl[k].chars))
             avg_font_size == Frac(SumSizes(sl[k].chars), Len(sl[k].chars))
             flushed == Tagged(st, add_formatted_paragraph(st.doc, join(cur)),
                               Tag(page, "text", first, sl[first].y))
         IN IF line_text = <<>> THEN
                IF cur # <<>>
                THEN advanced_lines(flushed, <<>>, 0, sl, k + 1, page)
                ELSE advanced_lines(st, cur, first, sl, k + 1, page)
            ELSE IF is_likely_header(line_text, avg_font_size) /\ cur # <<>> THEN
                advanced_lines(Tagged(flushed,
                                      advanced_header(flushed.doc, line_text,
                                              avg_font_size),
                                      Tag(page, "text", k, sl[k].y)),
                               <<>>, 0, sl, k + 1, page)
            ELSE advanced_lines(st, Append(cur, line_text),
                                IF cur = <<>> THEN k ELSE first, sl, k + 1, page)

\* advanced: one iteration of the fallback's loop
advanced_fallback_line(d, raw) ==
    LET line == strip(raw)
    IN IF line = <<>> THEN d
       ELSE IF detect_bullet_point(line) THEN add_bullet_point(d, line)
       ELSE IF isupper(line) /\ Len(line) < 50 THEN d \o <<Heading(line, 2, "")>>
       ELSE d \o <<Paragraph(line, "", "", 0)>>

RECURSIVE advanced_fallback(_, _, _, _)
advanced_fallback(st, ls, k, page) ==
    IF k > Len(ls) THEN st
    ELSE advanced_fallback(Tagged(st, advanced_fallback_line(st.doc, ls[k]),
                                  Tag(page, "text", k, 0)),
                           ls, k + 1, page)

\* the text part of one page, after page.chars (and extract_text) have returned
page_text(v, st, page, n) ==
    IF v = "basic" THEN
        IF page.text # <<>>
        THEN Tagged(st, st.doc \o <<Paragraph(page.text, "", "", 0)>>, Tag(n, "text", 1, 0))
        ELSE st
    ELSE IF page.chars # <<>> THEN
        IF v = "ultra"
        THEN ultra_blocks(st, analyze_text_blocks(page.chars),
                          sorted_lines(page.chars, Quantum(v)), 1, n)
        ELSE advanced_lines(st, <<>>, 0, sorted_lines(page.chars, Quantum(v)), 1, n)
    ELSE IF page.text # <<>> THEN
        IF v = "ultra"
        THEN smart_tagged(st, split(page.text), 1, n)
        ELSE advanced_fallback(st, split(page.text), 1, n)
    ELSE st

\* an exception swallowed inside the conversion function, which then returns the document
ResumeAfterRaise(v) == IF v = "basic" THEN "save" ELSE "close"

\* where the script is once an exception has been raised: in the advanced and ultra
\* variants the handler of __main__ has printed its message, in the basic variant
\* the interpreter its traceback; nothing runs after either
AfterRaise(v) == "error"

-----------------------------------------------------------------------------
(* Source documents.                                                        *)

\* the characters of the string t set from x0 at height y0, 6 units apart
MkLine(t, x0, y0, size) ==
    [i \in 1..Len(t) |-> Char(<<t[i]>>, x0 + 6 * (i - 1), y0, size, "default")]

Page(tables, cs, t) == [tables |-> tables, chars |-> cs, text |-> t]

\* a heading line over a bullet line, the bullet line first in page.chars
PageResume ==
    Page(<<>>,
         MkLine(<<"-", " ", "L", "e", "d">>, 60, 6880, NoSize) \o MkLine(<<"S", "K", "I",
                 "L", "L", "S">>, 0, 7004, 12),
         <<"S", "K", "I", "L", "L", "S", "\n", "-", " ", "L", "e", "d">>)

\* a table, a large title, a row of blanks and a bullet of markers only
PageTable ==
    Page(<<<<<<Str(<<"N", "a", "m", "e">>), Str(<<" ", "A", "g", "e", " ">>)>>,
            <<Str(<<"B", "o", "b">>), None>>, <<Str(<<"A", "l">>)>>>>>>,
         MkLine(<<"H", "i">>, 0, 7004, 18) \o MkLine(<<" ", " ">>, 0, 6500,
                 10) \o MkLine(<<"-">>, 0, 6000, 10),
         <<"H", "i">>)

\* no characters: the fallback
PageFallback == Page(<<>>, <<>>, <<"A", "B", "C", "\n", "-", " ", "x", "\n", "\n", "1",
        ".", "\n", "a", ".", " ", "b">>)

\* two tables, the second with a row longer than its first row
PageRagged ==
    Page(<<<<<<Str(<<"a">>)>>>>, <<<<Str(<<"b">>)>>, <<Str(<<"c">>), Str(<<"d">>)>>>>>>,
         MkLine(<<"x">>, 0, 7004, 10), <<"x">>)

\* nothing at all
PageBlank == Page(<<>>, <<>>, <<>>)

\* an empty grid and a table, no characters, text for the fallback
PageTableFallback ==
    Page(<<<<>>, <<<<Str(<<"k">>), Str(<<>>)>>>>>>, <<>>, <<"1", ".", " ", "2", ".", " ",
            "z">>)

\* two long lines of body text, then a short heading line
PageBody ==
    Page(<<>>,
         MkLine(<<"t", "h", "i", "s", " ", "i", "s", " ", "a", " ", "l", "o", "n", "g",
                 " ", "l", "i", "n", "e", " ", "o", "f", " ", "b", "o", "d", "y", " ",
                 "t", "e", "x", "t", " ", "t", "h", "a", "t", " ", "g", "o", "e", "s",
                 " ", "p", "a", "s", "t", " ", "f", "i", "f", "t", "y">>, 0, 7004, 10)
         \o MkLine(<<"i", "t", " ", "i", "s", " ", "f", "o", "l", "l", "o", "w", "e", "d",
                 " ", "b", "y", " ", "a", " ", "s", "e", "c", "o", "n", "d", " ", "l",
                 "i", "n", "e", " ", "o", "f", " ", "b", "o", "d", "y", " ", "t", "e",
                 "x", "t", ",", " ", "a", "s", " ", "l", "o", "n", "g">>, 0, 6900, 10)
         \o MkLine(<<"E", "D", "U", "C", "A", "T", "I", "O", "N">>, 0, 6800, 10),
         <<"b", "o", "d", "y">>)

PageSamples ==
    {PageResume, PageTable, PageFallback, PageRagged, PageBlank, PageTableFallback,
            PageBody}

MaxPages == 2

PdfSamples == UNION {[1..n -> PageSamples] : n \in 0..MaxPages}

-----------------------------------------------------------------------------
(* One run of a script: Spec.                                              *)

Init ==
    /\ pc = "start"
    /\ variant \in {"basic", "advanced", "ultra"}
    /\ pdf \in PdfSamples
    /\ page_num = 0
    /\ doc = <<>>
    /\ origin = <<>>
    /\ opened = FALSE
    /\ closed = FALSE
    /\ save_calls = 0
    /\ fault = "none"
    /\ TextIdle
    /\ TableIdle
    /\ GroupIdle

idleVars == <<textVars, grid, groupVars>>

\* pdf = pdfplumber.open(pdf_path); doc = Document()
Open ==
    /\ pc = "start"
    /\ \/ /\ opened' = TRUE
          /\ pc' = "loop"
          /\ UNCHANGED fault
       \/ /\ fault' = "open"
          /\ pc' = AfterRaise(variant)
          /\ UNCHANGED opened
    /\ UNCHANGED <<variant, pdf, page_num, doc, origin, closed, save_calls, idleVars>>

\* the loop takes the next page; advanced and ultra add the page break
NextPage ==
    /\ pc = "loop"
    /\ page_num < Len(pdf)
    /\ page_num' = page_num + 1
    /\ IF variant # "basic" /\ NeedsPageBreak(page_num + 1)
       THEN /\ doc' = doc \o <<PageBreak>>
            /\ origin' = origin \o <<Tag(page_num + 1, "break", 0, 0)>>
       ELSE UNCHANGED <<doc, origin>>
    /\ pc' = IF variant = "basic" THEN "text" ELSE "tables"
    /\ UNCHANGED <<variant, pdf, opened, closed, save_calls, fault, idleVars>>

\* the loop has no page left
EndLoop ==
    /\ pc = "loop"
    /\ page_num = Len(pdf)
    /\ pc' = IF variant = "basic" THEN "save" ELSE "close"
    /\ UNCHANGED <<variant, pdf, page_num, doc, origin, opened, closed, save_calls, fault,
                   idleVars>>

\* tables = page.extract_tables() and the loop over the tables
Tables ==
    /\ pc = "tables"
    /\ \/ LET r == emit_tables(doc, pdf[page_num].tables, TableStyle(variant))
          IN /\ doc' = r.doc
             /\ origin' = Tagged([doc |-> doc, origin |-> origin], r.doc,
                                 Tag(page_num, "table", 0, 0)).origin
             /\ pc' = IF r.ok THEN "text" ELSE AfterRaise(variant)
             /\ fault' = IF r.ok THEN fault ELSE "fill"
       \/ /\ fault' = "extract_tables"
          /\ pc' = AfterRaise(variant)
          /\ UNCHANGED <<doc, origin>>
    /\ UNCHANGED <<variant, pdf, page_num, opened, closed, save_calls, idleVars>>

\* page.chars or page.extract_text() and the nodes made of them
Text ==
    /\ pc = "text"
    /\ \/ LET st == page_text(variant, [doc |-> doc, origin |-> origin], pdf[page_num],
                              page_num)
          IN /\ doc' = st.doc
             /\ origin' = st.origin
             /\ pc' = "loop"
             /\ UNCHANGED fault
       \/ /\ variant # "basic"
          /\ fault' = "chars"
          /\ pc' = AfterRaise(variant)
          /\ UNCHANGED <<doc, origin>>
       \/ /\ variant = "basic" \/ pdf[page_num].chars = <<>>
          /\ fault' = "extract_text"
          /\ pc' = AfterRaise(variant)
          /\ UNCHANGED <<doc, origin>>
    /\ UNCHANGED <<variant, pdf, page_num, opened, closed, save_calls, idleVars>>

\* pdf.close(): before the return in advanced and ultra, after the save in basic
Close ==
    /\ pc = "close"
    /\ closed' = TRUE
    /\ pc' = IF variant = "basic" THEN "done" ELSE "save"
    /\ UNCHANGED <<variant, pdf, page_num, doc, origin, opened, save_calls, fault,
            idleVars>>

\* doc.save(output_filename)
Save ==
    /\ pc = "save"
    /\ save_calls' = save_calls + 1
    /\ \/ /\ pc' = IF variant = "basic" THEN "close" ELSE "done"
          /\ UNCHANGED fault
       \/ /\ fault' = "save"
          /\ pc' = AfterRaise(variant)
    /\ UNCHANGED <<variant, pdf, page_num, doc, origin, opened, closed, idleVars>>

Next == Open \/ NextPage \/ EndLoop \/ Tables \/ Text \/ Close \/ Save

Spec == Init /\ [][Next]_vars

-----------------------------------------------------------------------------
(* Claims about the text functions, checked under SpecText.                 *)

\* the text has nothing but list markers: bullet glyphs and blanks, then at most one
\* numeric marker "N." and blanks
OnlyMarkers(t) ==
    LET u == Drop(t, LeadIn(t, BulletClass))
        n == LeadIn(u, Digit)
    IN \/ u = <<>>
       \/ /\ n >= 1
          /\ Len(u) > n
          /\ u[n + 1] = "."
          /\ \A i \in (n + 2)..Len(u) : u[i] \in WS

\* the text starts with a numeric list marker such as "1."
StartsNumbered(t) ==
    \E n \in 1..(Len(t) - 1) : t[n + 1] = "." /\ \A i \in 1..n : t[i] \in Digit

\* the text starts with an alphabetic list marker such as "a."
StartsLettered(t) == Len(t) >= 2 /\ t[1] \in Letter /\ t[2] = "."

\* the text starts with one of the six bullet glyphs
StartsGlyph(t) == Len(t) >= 1 /\ t[1] \in {"U+2022", "U+25E6", "-", "*", "U+25AA", "U+25AB"}

\* no heading rule of the classifier matches the line
NoHeadingRule(t, size) == ~(size.num > 14 * size.den) /\ ~(isupper(t) /\ Len(t) < 50)

\* C2, as claimed: add_formatted_text_block appends exactly one node for every
\* TextBlock, of every kind and text.
C2_ExactlyOneAppend == pc = "emitted" => Len(doc) = 1

\* C2, amended: add_formatted_text_block appends at most one node; it appends exactly
\* one (a heading for the heading kinds, a paragraph for the others) for every kind and
\* text except a bullet block whose text has nothing but markers, for which it
\* appends nothing.
C2_OneAppendUnlessEmptyBullet ==
    pc = "emitted" =>
        /\ Len(doc) <= 1
        /\ Len(doc) = 0 <=> (blk.type = "bullet" /\ OnlyMarkers(blk.text))
        /\ Len(doc) = 1 =>
              /\ doc[1].op = IF blk.type \in {"heading1", "heading2", "section_header"}
                             THEN "add_heading" ELSE "add_paragraph"
              /\ blk.type = "bullet" => doc[1].text # <<>> /\ doc[1].style = "List Bullet"
              /\ blk.type \notin {"bullet", "empty"} => doc[1].text = blk.text

\* C2, witness: a bullet block of markers only ("1." or a lone glyph) was given and
\* nothing was appended.
C2_EmptyBulletEmitted ==
    /\ pc = "emitted"
    /\ blk.type = "bullet"
    /\ blk.text # <<>>
    /\ Len(doc) = 0

\* C6, as claimed: in the ultra variant a line of font size <= 14 whose text is all
\* uppercase, shorter than 30 characters and holds a section keyword is classified
\* section_header; any other all-uppercase line shorter than 50 characters is heading2.
C6_UpperKeywordIsSectionHeader ==
    (pc = "classified" /\ in_text # <<>> /\ ~(in_size.num > 14 * in_size.den)
        /\ isupper(in_text) /\ Len(in_text) < 50) =>
        blk.type = IF Len(in_text) < 30 /\ HasSectionKeyword(in_text)
                   THEN "section_header" ELSE "heading2"

\* C7, as claimed: a line that no heading rule matches is classified bullet whenever
\* it starts with a bullet glyph, a numeric marker or an alphabetic marker.
C7_MarkersAreBullets ==
    (pc = "classified" /\ in_text # <<>> /\ NoHeadingRule(in_text, in_size)
        /\ (StartsGlyph(in_text) \/ StartsNumbered(in_text) \/ StartsLettered(in_text))) =>
        blk.type = "bullet"

\* C7, amended: a line that no heading rule matches is classified bullet by
\* classify_text_type whenever it starts with a bullet glyph or a numeric marker,
\* whatever else it holds (phone number, e-mail address, section keyword) and whatever
\* its indent; a line that starts with an alphabetic marker and with neither of those is
\* never classified bullet by classify_text_type; detect_bullet_point of the advanced
\* variant accepts all three kinds of marker.
C7_GlyphAndNumberAreBullets ==
    (pc = "classified" /\ in_text # <<>>) =>
        /\ (NoHeadingRule(in_text,
                in_size) /\ (StartsGlyph(in_text) \/ StartsNumbered(in_text)))
              => blk.type = "bullet"
        /\ (StartsLettered(in_text) /\ ~StartsGlyph(in_text) /\ ~StartsNumbered(in_text))
              => blk.type # "bullet"
        /\ (StartsGlyph(in_text) \/ StartsNumbered(in_text) \/ StartsLettered(in_text))
              => detect_bullet_point(in_text)

\* C7, witness: an indented line that starts with a glyph and holds a phone number
\* was classified bullet.
C7_BulletWithPhone ==
    /\ pc = "classified"
    /\ blk.type = "bullet"
    /\ StartsGlyph(in_text)
    /\ SearchPhone(in_text)
    /\ in_indent > 50

\* C9, as claimed: each bullet-marker stripper, applied to its own output, returns
\* that output unchanged.
C9_StripperIdempotent == pc = "restripped" => clean2 = clean

-----------------------------------------------------------------------------
(* Claim about the table emitter, checked under SpecTable.                  *)

\* the text the claim gives cell (i, j) of the emitted table
ClaimedCell(g, i, j) ==
    IF j <= Len(g[i]) /\ g[i][j] # None THEN strip(g[i][j][1]) ELSE <<>>

\* C5, as claimed: a grid of R >= 1 rows whose first row has C cells makes one table
\* of R rows and C columns, cell (i, j) holding the grid's cell trimmed (blank when the
\* grid has none), with one spacer paragraph directly after it; an empty grid makes
\* nothing.
C5_TableRoundTrip ==
    pc \in {"emitted", "error"} =>
        IF grid = <<>> THEN doc = <<>>
        ELSE /\ Len(doc) = 2
             /\ doc[1].op = "add_table"
             /\ doc[1].rows = Len(grid)
             /\ doc[1].cols = Len(grid[1])
             /\ \A i \in 1..Len(grid) : \A j \in 1..Len(grid[1]) :
                   doc[1].cells[i][j] = ClaimedCell(grid, i, j)
             /\ doc[2] = Paragraph(<<>>, "", "", 0)

-----------------------------------------------------------------------------
(* Claim about the line grouper, checked under SpecGroup.                   *)

\* number of occurrences of c in cs
Count(cs, c) == Cardinality({i \in 1..Len(cs) : cs[i] = c})

RECURSIVE CountInLines(_, _, _)
CountInLines(ls, k, c) ==
    IF k > Len(ls) THEN 0 ELSE Count(ls[k].chars, c) + CountInLines(ls, k + 1, c)

\* the texts of cs one after the other
RECURSIVE Concat(_, _)
Concat(cs, k) == IF k > Len(cs) THEN <<>> ELSE cs[k].text \o Concat(cs, k + 1)

\* C10: the line grouper puts every character in exactly one line, the line of its
\* quantized y0; the lines come in strictly descending quantized y0; the characters
\* of a line come in ascending x0; in the ultra variant every line makes exactly one
\* TextBlock, whose text is the line's characters joined and trimmed, so that there
\* are as many blocks as distinct quantized y0.
C10_ReadingOrder ==
    pc = "grouped" =>
        LET q == IF variant = "ultra" THEN 10 ELSE 100
            keys == {Round(page_chars[i].y0, q) : i \in 1..Len(page_chars)}
        IN /\ Len(grouped) = Cardinality(keys)
           /\ \A k \in 1..Len(grouped) : grouped[k].y \in keys
           /\ \A k \in 1..(Len(grouped) - 1) : grouped[k].y > grouped[k + 1].y
           /\ \A k \in 1..Len(grouped) : \A m \in 1..Len(grouped[k].chars) :
                 Round(grouped[k].chars[m].y0, q) = grouped[k].y
           /\ \A c \in {page_chars[i] : i \in 1..Len(page_chars)} :
                 CountInLines(grouped, 1, c) = Count(page_chars, c)
           /\ \A k \in 1..Len(grouped) : \A m \in 1..(Len(grouped[k].chars) - 1) :
                 grouped[k].chars[m].x0 <= grouped[k].chars[m + 1].x0
           /\ variant = "ultra" =>
                 /\ Len(blocks) = Cardinality(keys)
                 /\ \A k \in 1..Len(blocks) :
                       blocks[k].text = strip(Concat(grouped[k].chars, 1))

\* C10, witness: three characters given bottom line first and right to left were
\* grouped into two lines and two blocks.
C10_UnorderedPageGrouped ==
    /\ pc = "grouped"
    /\ variant = "ultra"
    /\ Len(page_chars) = 3
    /\ page_chars[1].y0 < page_chars[2].y0
    /\ page_chars[2].y0 = page_chars[3].y0
    /\ page_chars[2].x0 > page_chars[3].x0
    /\ Len(grouped) = 2
    /\ Len(blocks) = 2
    /\ Len(blocks[1].text) = 2

-----------------------------------------------------------------------------
(* Claims about a run, checked under Spec.                                  *)

\* the page loop has ended without an exception
LoopEnded == pc \in {"close", "save", "done"} \/ (pc = "error" /\ fault = "save")

\* page p has been processed to its end
Completed(p) == p < page_num \/ (p = page_num /\ (pc = "loop" \/ LoopEnded))

\* the nodes of doc that are the text of page p
TextNodes(p) == {i \in 1..Len(doc) : origin[i].page = p /\ origin[i].part = "text"}

\* C1: in the advanced and ultra variants the nodes are ordered by page; a page
\* break comes directly before the output of each page but the first, N - 1 of them
\* for a document of N pages; within a page every table and spacer comes before any
\* heading or paragraph made of the page's text, and those are in line order, top
\* of the page first.
C1_PageOrder ==
    variant \in {"advanced", "ultra"} =>
        /\ Len(origin) = Len(doc)
        /\ \A i \in 1..Len(doc) : \A j \in (i + 1)..Len(doc) :
              /\ origin[i].page <= origin[j].page
              /\ origin[i].page = origin[j].page =>
                    /\ origin[j].part # "break"
                    /\ origin[j].part = "table" => origin[i].part # "text"
                    /\ (origin[i].part = "text" /\ origin[j].part = "text") =>
                          /\ origin[i].line <= origin[j].line
                          /\ origin[i].y >= origin[j].y
        /\ \A i \in 1..Len(doc) :
              /\ doc[i].op = "add_page_break" <=> origin[i].part = "break"
              /\ origin[i].part = "break" => origin[i].page >= 2
              /\ origin[i].part = "table" =>
                    \/ doc[i].op = "add_table"
                    \/ i > 1 /\ doc[i - 1].op = "add_table" /\ doc[i] = Paragraph(<<>>,
                            "", "", 0)
              /\ origin[i].part = "text" => doc[i].op \in {"add_heading", "add_paragraph"}
        /\ \A p \in 2..page_num : \E i \in 1..Len(doc) : origin[i] = Tag(p, "break", 0, 0)
        /\ LoopEnded =>
              /\ page_num = Len(pdf)
              /\ Cardinality({i \in 1..Len(doc) : doc[i].op = "add_page_break"})
                    = IF Len(pdf) = 0 THEN 0 ELSE Len(pdf) - 1

\* C1, witness: a run of the ultra variant over two pages has ended; the first page
\* gave text of two lines, the second a table and text after the page break.
C1_TwoPagesDone ==
    /\ pc = "done"
    /\ variant = "ultra"
    /\ Len(pdf) = 2
    /\ \E i \in TextNodes(1) : \E j \in TextNodes(1) : origin[i].y > origin[j].y
    /\ \E i \in 1..Len(doc) : origin[i].page = 2 /\ doc[i].op = "add_table"
    /\ TextNodes(2) # {}

\* C3, as claimed: a run that has opened the PDF and has ended, normally or by an
\* exception, has closed it.
C3_ClosedOnEveryExit == (opened /\ pc \in {"done", "error"}) => closed

\* C4: an exception raised by the opening of the PDF or in the processing of a page
\* ends the run: no page is taken after it and save() is not called; save() is called
\* at most once, and only after every page has been processed without an exception.
C4_NoSaveAfterRaise ==
    /\ save_calls <= 1
    /\ fault # "none" => (pc = "error" /\ ~ENABLED Next)
    /\ fault \in {"open", "extract_tables", "fill", "chars",
            "extract_text"} => save_calls = 0
    /\ save_calls = 1 =>
          /\ page_num = Len(pdf)
          /\ fault \in {"none", "save"}
          /\ opened
    /\ pc = "done" => save_calls = 1

\* C4, witness: page.chars raised on the first of two pages, after that page's table
\* had been added to the document; nothing was saved.
C4_AbortedMidDocument ==
    /\ pc = "error"
    /\ fault = "chars"
    /\ page_num = 1
    /\ Len(pdf) = 2
    /\ Len(doc) > 0
    /\ save_calls = 0

\* the lines of page p's extract_text()
FallbackLines(p) == IF pdf[p].text = <<>> THEN <<>> ELSE split(pdf[p].text)

\* the node is what the fallback makes of the line: a second-level heading for an
\* all-uppercase line under 50 characters, else a bulleted paragraph for a line with
\* a leading marker, else a plain paragraph
FallbackNode(n, raw) ==
    LET line == strip(raw)
    IN IF isupper(line) /\ Len(line) < 50
       THEN n.op = "add_heading" /\ n.level = 2 /\ n.text = line
       ELSE IF StartsGlyph(line) \/ StartsNumbered(line)
       THEN n.op = "add_paragraph" /\ n.style = "List Bullet" /\ n.text # <<>>
       ELSE n = Paragraph(line, "", "", 0)

\* the line is a bullet line with nothing after its markers
MarkersOnly(raw) ==
    LET line == strip(raw)
    IN /\ StartsGlyph(line) \/ StartsNumbered(line)
       /\ \A i \in 1..Len(line) :
             line[i] \in WS \cup Digit \cup {".", "U+2022", "U+25E6", "-", "*", "U+25AA",
                     "U+25AB"}

\* C8, as claimed: a page whose character extraction fails or gives no characters
\* does not end the run; the fallback makes one node of each non-blank line of
\* extract_text(): a second-level heading, a bulleted paragraph or a plain paragraph.
C8_FallbackNeverAborts ==
    variant = "ultra" =>
        /\ fault = "chars" => pc # "error"
        /\ \A p \in 1..Len(pdf) : (Completed(p) /\ pdf[p].chars = <<>>) =>
              \A k \in 1..Len(FallbackLines(p)) :
                  strip(FallbackLines(p)[k]) # <<>> =>
                      /\ Cardinality({i \in TextNodes(p) : origin[i].line = k}) = 1
                      /\ \A i \in TextNodes(p) :
                            origin[i].line = k => FallbackNode(doc[i], FallbackLines(p)[k])

\* C8, amended: in the ultra variant a page that gives no characters does not end
\* the run: each line of extract_text() makes at most one node, a second-level
\* heading, a bulleted paragraph or a plain paragraph (never a top-level heading, a
\* contact, indented or underlined node), a blank line an empty paragraph and a bullet
\* line of markers only no node, and the loop goes on to the next page; an exception
\* raised by page.chars ends the run like any other.
C8_FallbackOnNoChars ==
    variant = "ultra" =>
        /\ fault = "chars" => pc = "error"
        /\ \A p \in 1..Len(pdf) : (Completed(p) /\ pdf[p].chars = <<>>) =>
              /\ \A i \in TextNodes(p) :
                    /\ origin[i].line \in 1..Len(FallbackLines(p))
                    /\ doc[i].op = "add_heading" => doc[i].level = 2
                    /\ doc[i].fmt = ""
                    /\ doc[i].size = 0
              /\ \A k \in 1..Len(FallbackLines(p)) :
                    LET nodes == {i \in TextNodes(p) : origin[i].line = k}
                    IN IF strip(FallbackLines(p)[k]) = <<>>
                       THEN \E i \in nodes : nodes = {i} /\ doc[i] = Paragraph(<<>>, "",
                               "", 0)
                       ELSE IF MarkersOnly(FallbackLines(p)[k])
                       THEN nodes = {}
                       ELSE \E i \in nodes :
                               /\ nodes = {i}
                               /\ FallbackNode(doc[i], FallbackLines(p)[k])
        /\ pc = "error" => fault # "none"

\* C8, witness: the first page gave no characters, the fallback made a heading, a
\* bulleted paragraph and a plain paragraph of its text and no node of its line of
\* markers only, and the loop has taken the second page.
C8_FallbackThenNextPage ==
    /\ variant = "ultra"
    /\ page_num = 2
    /\ pc = "tables"
    /\ pdf[1].chars = <<>>
    /\ \E i \in TextNodes(1) : doc[i].op = "add_heading"
    /\ \E i \in TextNodes(1) : doc[i].style = "List Bullet"
    /\ \E k \in 1..Len(FallbackLines(1)) :
          /\ MarkersOnly(FallbackLines(1)[k])
          /\ \A i \in TextNodes(1) : origin[i].line # k

=============================================================================
